---------------------------- MODULE Spec2Model ----------------------------
(***************************************************************************)
(* A model of the chat server of src/server.py: the four global            *)
(* registries, the per-connection handler task (handle_client) and the     *)
(* request handlers it dispatches to.                                      *)
(*                                                                         *)
(* The server is a single-threaded asyncio program.  A handler task runs   *)
(* without interruption between two awaits; the awaits that can suspend    *)
(* it are receive_message (waiting for the client) and the writer.drain()  *)
(* inside send_message (the frame is already written to the transport when *)
(* the task suspends).  Every action of the model is therefore one such    *)
(* uninterrupted run of one task: it starts where the task was suspended   *)
(* and ends at the next send_message or at the next receive_message.       *)
(*                                                                         *)
(* Strings are tuples of one-character strings, so that str.strip() is     *)
(* computed and not assumed.  None and "" are both the empty tuple: the    *)
(* code only ever tests them for truth.                                    *)
(***************************************************************************)
EXTENDS Integers, Sequences, FiniteSets, TLC

(***************************************************************************)
(* Bounds of the model.                                                    *)
(***************************************************************************)
\* Longest offline mailbox a private_chat may still append to.
MaxMailbox == 2
\* Most entries (live or deleted) of online_users's entry array at which a
\* login is still accepted: it bounds the sessions created in one run.
MaxLogins == 4

\* The same under SpecGroups.
MaxGroupLogins == 3

\* Connections accepted by the server (each runs one handle_client task).
Conns == {"c1", "c2"}

\* Usernames, passwords and message texts as they are after strip().
UserA == <<"a">>
UserB == <<"b">>
UserC == <<"c">>
Users == {UserA, UserB}
Password == <<"p">>
WrongPassword == <<"q">>
Texts == {<<"x">>, <<"y">>}

\* Field values as a client may send them (before strip()).  An absent
\* field reads as "" (dict.get's default).
RawNames == Users \cup {<<>>, <<" ", "a">>}
RawNewPasswords == {Password, <<>>, <<"p", " ">>}
RawPasswords == {Password, WrongPassword, <<>>, <<" ", "p">>}
RawTexts == Texts \cup {<<" ">>}

\* current_user[0] = None, and the key of a deleted dict entry.
NoUser == <<>>

(***************************************************************************)
(* str.strip(), on tuples of characters.                                   *)
(***************************************************************************)
RECURSIVE LStrip(_)
LStrip(s) ==
  IF s = <<>> THEN <<>>
  ELSE IF Head(s) = " " THEN LStrip(Tail(s)) ELSE s

RECURSIVE RStrip(_)
RStrip(s) ==
  IF s = <<>> THEN <<>>
  ELSE IF s[Len(s)] = " " THEN RStrip(SubSeq(s, 1, Len(s) - 1)) ELSE s

Strip(s) == RStrip(LStrip(s))

\* hashlib.sha256(password.encode()).hexdigest(): deterministic, and
\* injective on the passwords of the model.
hash_password(password) == <<"sha256">> \o password

(***************************************************************************)
(* online_users is a CPython dict that is iterated while other tasks       *)
(* insert into it and delete from it (broadcast_online_users_update), so   *)
(* the model keeps what the iterator depends on: the entry array in        *)
(* insertion order, where a deleted entry leaves a dummy behind, and the   *)
(* number of entries the array can still take before the next insertion    *)
(* rebuilds it without the dummies.                                        *)
(***************************************************************************)
\* PyDict_MINSIZE
DictMinSize == 8

\* USABLE_FRACTION(n)
DictUsableFraction(n) == (2 * n) \div 3

RECURSIVE DictKeySize(_, _)
\* calculate_log2_keysize: the least power of two >= minsize, from size on
DictKeySize(size, minsize) ==
  IF size >= minsize THEN size ELSE DictKeySize(2 * size, minsize)

Dummy == [k |-> NoUser, w |-> "-"]

EmptyDict == [entries |-> <<>>, usable |-> DictUsableFraction(DictMinSize)]

DictLive(d) == {i \in 1..Len(d.entries) : d.entries[i].k # NoUser}

DictKeys(d) == {d.entries[i].k : i \in DictLive(d)}

\* ma_used
DictUsed(d) == Cardinality(DictLive(d))

DictHas(d, k) == k \in DictKeys(d)

DictIndex(d, k) == CHOOSE i \in DictLive(d) : d.entries[i].k = k

DictGet(d, k) == d.entries[DictIndex(d, k)].w

\* The writers stored in the dict, for the usernames in it.
DictValues(d) == {d.entries[i].w : i \in DictLive(d)}

\* dictresize: the live entries, compacted, in a table sized for 3 * used
DictResize(d) ==
  LET live == SelectSeq(d.entries, LAMBDA e : e.k # NoUser)
      size == DictKeySize(DictMinSize, 3 * Len(live))
  IN [entries |-> live, usable |-> DictUsableFraction(size) - Len(live)]

\* d[k] = w
DictSet(d, k, w) ==
  IF DictHas(d, k)
  THEN [d EXCEPT !.entries[DictIndex(d, k)].w = w]
  ELSE LET r == IF d.usable <= 0 THEN DictResize(d) ELSE d
       IN [entries |-> Append(r.entries, [k |-> k, w |-> w]),
           usable |-> r.usable - 1]

\* del d[k], for a key that is in d
DictDel(d, k) == [d EXCEPT !.entries[DictIndex(d, k)] = Dummy]

\* iter(d.items()): di_pos, di_used, len
DictIter(d) == [pos |-> 1, used |-> DictUsed(d), len |-> DictUsed(d)]

NoIter == [pos |-> 0, used |-> 0, len |-> 0]

\* dictiter_iternextitem.  kind is "raise" (RuntimeError: the dictionary
\* changed size, or its keys changed, during iteration), "stop"
\* (StopIteration) or "item".
DictIterNext(d, it) ==
  IF it.used # DictUsed(d) THEN [kind |-> "raise", e |-> Dummy, it |-> it]
  ELSE LET rest == {i \in DictLive(d) : i >= it.pos}
       IN IF rest = {} THEN [kind |-> "stop", e |-> Dummy, it |-> it]
          ELSE IF it.len = 0 THEN [kind |-> "raise", e |-> Dummy, it |-> it]
          ELSE LET i == CHOOSE j \in rest : \A j2 \in rest : j <= j2
               IN [kind |-> "item", e |-> d.entries[i],
                   it |-> [it EXCEPT !.pos = i + 1, !.len = @ - 1]]


(***************************************************************************)
(* The state.                                                              *)
(***************************************************************************)
VARIABLES
  users_db,          \* username -> [password_hash]           (line 9)
  online_users,      \* the dict username -> writer           (line 8)
  offline_messages,  \* username -> list of notifications     (line 11)
  groups,            \* group name -> set of usernames        (line 10)
  hash_order,        \* the usernames in the order of their hashes, which
                     \* is the order a set of them is iterated in; fixed
                     \* when the process starts
  current_user,      \* per connection: current_user[0]       (line 275)
  pc,                \* per connection: where its task is suspended
  loc,               \* per connection: the locals of the suspended handler
  writer_closed,     \* per connection: writer.close() was called (line 349)
  sent,              \* the frames written by the last step, in order, each
                     \* as [by |-> task, to |-> writer, msg |-> frame]
  last_update        \* per connection: the data of the last
                     \* update_online_users frame written to its writer
                     \* (recorded under SpecRoster only)

vars == <<users_db, online_users, offline_messages, groups, hash_order,
          current_user, pc, loc, writer_closed, sent, last_update>>

\* The state a step starts from, as one record, so that a handler is a
\* function from the state at its start to the state at its next
\* suspension.
State ==
  [users_db |-> users_db, online_users |-> online_users,
   offline_messages |-> offline_messages, groups |-> groups,
   hash_order |-> hash_order, current_user |-> current_user,
   pc |-> pc, loc |-> loc, writer_closed |-> writer_closed, sent |-> <<>>,
   last_update |-> last_update]

\* roster: whether last_update is recorded.
Becomes(S, roster) ==
  /\ users_db' = S.users_db
  /\ online_users' = S.online_users
  /\ offline_messages' = S.offline_messages
  /\ groups' = S.groups
  /\ hash_order' = S.hash_order
  /\ current_user' = S.current_user
  /\ pc' = S.pc
  /\ loc' = S.loc
  /\ writer_closed' = S.writer_closed
  /\ sent' = S.sent
  /\ last_update' = IF roster THEN S.last_update ELSE last_update

NoData == [none |-> TRUE]

NoFrame == [type |-> "none"]

\* The locals of a handler that is not suspended.
NoLoc ==
  [op |-> "none", username |-> NoUser, online_list |-> {},
   registered_list |-> {}, idx |-> 0, live |-> FALSE, list |-> <<>>,
   backlog |-> <<>>, it |-> NoIter, notification |-> NoFrame,
   response |-> NoFrame, own_update |-> FALSE, sender |-> NoUser,
   group |-> <<>>, members |-> NoIter, sent_count |-> 0]

\* The states of a task: waiting in receive_message, suspended in the
\* send_message of line 143, of line 89, of line 176 or of line 210, ended
\* by writer.close(), or ended by an exception that left handle_client.
Suspended == {"drain", "broadcast", "reply", "group"}

Ended == {"closed", "failed"}

(***************************************************************************)
(* The texts of the responses (the source's are in Chinese).               *)
(***************************************************************************)
MsgEmptyCredentials == "username and password must not be empty" \* 97, 119
MsgUserExists == "username already exists"                       \* 100
MsgRegistered == "registered"                                    \* 111
MsgNoSuchUser == "no such user"                                  \* 122
MsgWrongPassword == "wrong password"                             \* 125
MsgAlreadyOnline == "user already online"                        \* 128
MsgLoggedIn == "logged in"                                       \* 151
MsgEmptyChat == "target and message must not be empty"           \* 159
MsgSelfChat == "cannot send a message to yourself"               \* 162
MsgNoSuchTarget == "target user does not exist"                  \* 166
MsgSent == "message sent"                                        \* 177
MsgStoredOffline == "target offline, message stored"             \* 183
MsgLoggedOut == "logged out"                                     \* 307
MsgNotLoggedIn == "you are not logged in"                        \* 309
MsgUnknownType == "unknown message type"                         \* 323
MsgLoginFirst == "please log in first"                           \* 325
MsgServerError == "internal server error"                        \* 336
MsgEmptyGroupChat == "group and message must not be empty"       \* 191
MsgNoSuchGroup == "group does not exist"                         \* 194, 241
MsgNotMember == "you are not in this group"                      \* 197
MsgEmptyGroupName == "group name must not be empty"              \* 222, 238
MsgGroupExists == "group already exists"                         \* 225
MsgGroupCreated == "group created"                               \* 231
MsgAlreadyMember == "you are already in this group"              \* 244
MsgJoined == "joined the group"                                  \* 250
MsgNone == ""                                                    \* 21

\* create_response: "data" is in the response only when it is not empty.
\* The timestamp is left out.
create_response(msg_type, status, data, message) ==
  IF data = NoData
  THEN [type |-> msg_type \o "_response", status |-> status,
        message |-> message]
  ELSE [type |-> msg_type \o "_response", status |-> status,
        message |-> message, data |-> data]

create_notification(msg_type, data) == [type |-> msg_type, data |-> data]

\* send_message, called by task `by`: the frame is written whole
\* (writer.write) and every exception is swallowed, so a write to a
\* connection that is gone has no effect on the server.
send_message(S, by, writer, message) ==
  [S EXCEPT
     !.sent = Append(@, [by |-> by, to |-> writer, msg |-> message]),
     !.last_update[writer] =
        IF message.type = "update_online_users" THEN message.data ELSE @]

\* users_db and offline_messages are dicts that are never iterated while
\* they change: functions from the keys they hold.
EmptyMap == [k \in {} |-> NoUser]

MapPut(f, k, v) == [x \in DOMAIN f \cup {k} |-> IF x = k THEN v ELSE f[x]]

MapDel(f, k) == [x \in DOMAIN f \ {k} |-> f[x]]

(***************************************************************************)
(* What a handler does once it is through, and what happens to an          *)
(* exception raised in it.  loc[c].op names the code the task c is in:     *)
(* "register", "login", "private_chat", "logout" (lines 303-307) or        *)
(* "close" (the finally clause, lines 343-349).                            *)
(***************************************************************************)
\* Lines 327-329: the response is sent and the task is back in
\* receive_message.
respond(S, c, response) ==
  LET S1 == send_message(S, c, c, response)
  IN [S1 EXCEPT !.pc[c] = "recv", !.loc[c] = NoLoc]

\* Line 349: writer.close(), the last statement of the task.
close_writer(S, c) ==
  [S EXCEPT !.pc[c] = "closed", !.loc[c] = NoLoc, !.writer_closed[c] = TRUE]

\* An exception raised in a handler.  In the dispatch it is caught at line
\* 334 and answered with a server error; raised in the finally clause it
\* leaves handle_client, and line 349 is never reached.
raise(S, c) ==
  IF S.loc[c].op = "close"
  THEN [S EXCEPT !.pc[c] = "failed", !.loc[c] = NoLoc]
  ELSE respond(S, c,
               create_response("server", "error", NoData, MsgServerError))

\* resume with the lists of lines 137-138 taken when the response is made.
resume_fresh(S, c) ==
  CASE S.loc[c].op = "register" ->
         respond(S, c,
                 create_response("register", "success", NoData, MsgRegistered))
    [] S.loc[c].op = "login" ->
         respond(S, c,
                 create_response("login", "success",
                                 [online_users |-> DictKeys(S.online_users),
                                  registered_users |-> DOMAIN S.users_db],
                                 MsgLoggedIn))
    [] S.loc[c].op = "logout" ->
         respond([S EXCEPT !.current_user[c] = NoUser], c,
                 create_response("logout", "success", NoData, MsgLoggedOut))
    [] S.loc[c].op = "close" -> close_writer(S, c)

\* The code that follows the awaited broadcast or handle_logout.
resume(S, c) ==
  CASE S.loc[c].op = "register" ->                               \* line 111
         respond(S, c,
                 create_response("register", "success", NoData, MsgRegistered))
    [] S.loc[c].op = "login" ->                           \* lines 149-151
         respond(S, c,
                 create_response("login", "success",
                                 [online_users |-> S.loc[c].online_list,
                                  registered_users |->
                                     S.loc[c].registered_list],
                                 MsgLoggedIn))
    [] S.loc[c].op = "logout" ->                          \* lines 306-307
         respond([S EXCEPT !.current_user[c] = NoUser], c,
                 create_response("logout", "success", NoData, MsgLoggedOut))
    [] S.loc[c].op = "close" -> close_writer(S, c)       \* lines 348-349

(***************************************************************************)
(* broadcast_online_users_update, lines 79-89.                             *)
(***************************************************************************)
\* One turn of the loop of lines 88-89: the next item of the dict iterator,
\* and the send_message the task is suspended in.
broadcast_next(S, c) ==
  LET n == DictIterNext(S.online_users, S.loc[c].it)
  IN CASE n.kind = "item" ->
            [send_message(S, c, n.e.w, S.loc[c].notification)
               EXCEPT !.loc[c].it = n.it, !.pc[c] = "broadcast",
                      !.loc[c].own_update = @ \/ n.e.w = c]
       [] n.kind = "stop" -> resume(S, c)
       [] n.kind = "raise" -> raise(S, c)

\* Lines 81-88: the snapshot is taken once, before the loop.  The lists
\* are kept as the sets of their elements.
broadcast_online_users_update(S, c) ==
  LET notification ==
        create_notification("update_online_users",
                            [online_users |-> DictKeys(S.online_users),
                             registered_users |-> DOMAIN S.users_db])
  IN broadcast_next([S EXCEPT !.loc[c].notification = notification,
                              !.loc[c].it = DictIter(S.online_users)], c)

(***************************************************************************)
(* handle_register, lines 91-111.                                          *)
(***************************************************************************)
handle_register(S, c, data) ==
  LET username == Strip(data.username)
      password == Strip(data.password)
  IN IF username = <<>> \/ password = <<>>
     THEN respond(S, c, create_response("register", "error", NoData,
                                        MsgEmptyCredentials))
     ELSE IF username \in DOMAIN S.users_db
     THEN respond(S, c, create_response("register", "error", NoData,
                                        MsgUserExists))
     ELSE broadcast_online_users_update(
            [S EXCEPT !.users_db =
                        MapPut(@, username,
                               [password_hash |-> hash_password(password)]),
                      !.loc[c] = [NoLoc EXCEPT !.op = "register"]], c)

(***************************************************************************)
(* handle_login, lines 113-151.                                            *)
(***************************************************************************)
\* The list the loop of line 142 iterates: the list object that was in
\* offline_messages[username] when the loop began.  It is that entry for
\* as long as no other login has deleted the entry (live), and the list as
\* it was when the entry was deleted from then on.
drain_list(S, c) ==
  IF S.loc[c].live THEN S.offline_messages[S.loc[c].username]
  ELSE S.loc[c].list

\* Line 144, del offline_messages[username]: the tasks still iterating the
\* deleted list keep it.
delete_mailbox(S, c, username) ==
  [S EXCEPT
     !.offline_messages = MapDel(@, username),
     !.loc = [d \in Conns |->
                IF d # c /\ S.pc[d] = "drain" /\ S.loc[d].live
                   /\ S.loc[d].username = username
                THEN [S.loc[d] EXCEPT !.live = FALSE,
                                      !.list = S.offline_messages[username]]
                ELSE S.loc[d]]]

\* login_drain_next without line 144: the mailbox is left as it is.
login_drain_next_kept(S, c) ==
  LET list == drain_list(S, c)
      i == S.loc[c].idx
  IN IF i <= Len(list)
     THEN [send_message(S, c, c, list[i])
             EXCEPT !.loc[c].idx = i + 1, !.pc[c] = "drain"]
     ELSE broadcast_online_users_update(S, c)

\* One turn of the loop of lines 142-143, and lines 144-147 when the list
\* is exhausted (the del raises KeyError when the entry is gone).
login_drain_next(S, c) ==
  LET username == S.loc[c].username
      list == drain_list(S, c)
      i == S.loc[c].idx
  IN IF i <= Len(list)
     THEN [send_message(S, c, c, list[i])
             EXCEPT !.loc[c].idx = i + 1, !.pc[c] = "drain"]
     ELSE IF username \notin DOMAIN S.offline_messages
     THEN raise(S, c)
     ELSE broadcast_online_users_update(delete_mailbox(S, c, username), c)

\* handle_login without the test of lines 124-125.
handle_login_any_password(S, c, data) ==
  LET username == Strip(data.username)
      password == Strip(data.password)
  IN IF username = <<>> \/ password = <<>>
     THEN respond(S, c, create_response("login", "error", NoData,
                                        MsgEmptyCredentials))
     ELSE IF username \notin DOMAIN S.users_db
     THEN respond(S, c, create_response("login", "error", NoData,
                                        MsgNoSuchUser))
     ELSE IF DictHas(S.online_users, username)
     THEN respond(S, c, create_response("login", "error", NoData,
                                        MsgAlreadyOnline))
     ELSE LET online == DictSet(S.online_users, username, c)
              S1 == [S EXCEPT
                       !.online_users = online,
                       !.current_user[c] = username,
                       !.loc[c] =
                          [NoLoc EXCEPT
                             !.op = "login",
                             !.username = username,
                             !.online_list = DictKeys(online),
                             !.registered_list = DOMAIN S.users_db,
                             !.idx = 1,
                             !.live = username \in DOMAIN S.offline_messages,
                             !.backlog =
                                IF username \in DOMAIN S.offline_messages
                                THEN S.offline_messages[username]
                                ELSE <<>>]]
          IN IF username \in DOMAIN S.offline_messages
             THEN login_drain_next(S1, c)
             ELSE broadcast_online_users_update(S1, c)

\* handle_login without the tests of lines 121-125.
handle_login_any_name(S, c, data) ==
  LET username == Strip(data.username)
      password == Strip(data.password)
  IN IF username = <<>> \/ password = <<>>
     THEN respond(S, c, create_response("login", "error", NoData,
                                        MsgEmptyCredentials))
     ELSE IF DictHas(S.online_users, username)
     THEN respond(S, c, create_response("login", "error", NoData,
                                        MsgAlreadyOnline))
     ELSE LET online == DictSet(S.online_users, username, c)
              S1 == [S EXCEPT
                       !.online_users = online,
                       !.current_user[c] = username,
                       !.loc[c] =
                          [NoLoc EXCEPT
                             !.op = "login",
                             !.username = username,
                             !.online_list = DictKeys(online),
                             !.registered_list = DOMAIN S.users_db,
                             !.idx = 1,
                             !.live = username \in DOMAIN S.offline_messages,
                             !.backlog =
                                IF username \in DOMAIN S.offline_messages
                                THEN S.offline_messages[username]
                                ELSE <<>>]]
          IN IF username \in DOMAIN S.offline_messages
             THEN login_drain_next(S1, c)
             ELSE broadcast_online_users_update(S1, c)

handle_login(S, c, data) ==
  LET username == Strip(data.username)
      password == Strip(data.password)
  IN IF username = <<>> \/ password = <<>>
     THEN respond(S, c, create_response("login", "error", NoData,
                                        MsgEmptyCredentials))
     ELSE IF username \notin DOMAIN S.users_db
     THEN respond(S, c, create_response("login", "error", NoData,
                                        MsgNoSuchUser))
     ELSE IF S.users_db[username].password_hash # hash_password(password)
     THEN respond(S, c, create_response("login", "error", NoData,
                                        MsgWrongPassword))
     ELSE IF DictHas(S.online_users, username)
     THEN respond(S, c, create_response("login", "error", NoData,
                                        MsgAlreadyOnline))
     ELSE LET online == DictSet(S.online_users, username, c)
              S1 == [S EXCEPT
                       !.online_users = online,
                       !.current_user[c] = username,
                       !.loc[c] =
                          [NoLoc EXCEPT
                             !.op = "login",
                             !.username = username,
                             !.online_list = DictKeys(online),
                             !.registered_list = DOMAIN S.users_db,
                             !.idx = 1,
                             !.live = username \in DOMAIN S.offline_messages,
                             !.backlog =
                                IF username \in DOMAIN S.offline_messages
                                THEN S.offline_messages[username]
                                ELSE <<>>]]
          IN IF username \in DOMAIN S.offline_messages
             THEN login_drain_next(S1, c)
             ELSE broadcast_online_users_update(S1, c)

(***************************************************************************)
(* handle_private_chat, lines 153-183.                                     *)
(***************************************************************************)
\* handle_private_chat with line 173 left out: the notification is put in
\* the mailbox whether the target is online or not.
handle_private_chat_stored(S, c, data, sender) ==
  LET target == Strip(data.to)
      message == Strip(data.message)
      notification ==
        create_notification("private_message",
                            [from |-> sender, message |-> message])
  IN IF target = <<>> \/ message = <<>> \/ target = sender
        \/ target \notin DOMAIN S.users_db
     THEN respond(S, c, create_response("private_chat", "error", NoData,
                                        MsgEmptyChat))
     ELSE respond([S EXCEPT
                     !.offline_messages =
                        MapPut(@, target,
                               Append(IF target \in DOMAIN @ THEN @[target]
                                      ELSE <<>>,
                                      notification))],
                  c, create_response("private_chat", "success", NoData,
                                     MsgStoredOffline))

\* handle_private_chat without the test of lines 161-162.
handle_private_chat_self(S, c, data, sender) ==
  LET target == Strip(data.to)
      message == Strip(data.message)
      notification ==
        create_notification("private_message",
                            [from |-> sender, message |-> message])
  IN IF target = <<>> \/ message = <<>>
     THEN respond(S, c, create_response("private_chat", "error", NoData,
                                        MsgEmptyChat))
     ELSE IF target \notin DOMAIN S.users_db
     THEN respond(S, c, create_response("private_chat", "error", NoData,
                                        MsgNoSuchTarget))
     ELSE IF DictHas(S.online_users, target)
     THEN [send_message(S, c, DictGet(S.online_users, target), notification)
             EXCEPT !.pc[c] = "reply",
                    !.loc[c] =
                       [NoLoc EXCEPT
                          !.op = "private_chat",
                          !.response =
                             create_response("private_chat", "success",
                                             NoData, MsgSent)]]
     ELSE respond([S EXCEPT
                     !.offline_messages =
                        MapPut(@, target,
                               Append(IF target \in DOMAIN @ THEN @[target]
                                      ELSE <<>>,
                                      notification))],
                  c, create_response("private_chat", "success", NoData,
                                     MsgStoredOffline))

handle_private_chat(S, c, data, sender) ==
  LET target == Strip(data.to)
      message == Strip(data.message)
      notification ==
        create_notification("private_message",
                            [from |-> sender, message |-> message])
  IN IF target = <<>> \/ message = <<>>
     THEN respond(S, c, create_response("private_chat", "error", NoData,
                                        MsgEmptyChat))
     ELSE IF target = sender
     THEN respond(S, c, create_response("private_chat", "error", NoData,
                                        MsgSelfChat))
     ELSE IF target \notin DOMAIN S.users_db
     THEN respond(S, c, create_response("private_chat", "error", NoData,
                                        MsgNoSuchTarget))
     ELSE IF DictHas(S.online_users, target)
     THEN [send_message(S, c, DictGet(S.online_users, target), notification)
             EXCEPT !.pc[c] = "reply",
                    !.loc[c] =
                       [NoLoc EXCEPT
                          !.op = "private_chat",
                          !.response =
                             create_response("private_chat", "success",
                                             NoData, MsgSent)]]
     ELSE respond([S EXCEPT
                     !.offline_messages =
                        MapPut(@, target,
                               Append(IF target \in DOMAIN @ THEN @[target]
                                      ELSE <<>>,
                                      notification))],
                  c, create_response("private_chat", "success", NoData,
                                     MsgStoredOffline))

(***************************************************************************)
(* handle_logout, lines 263-270, called with loc[c].op = "logout" or       *)
(* "close".                                                                *)
(***************************************************************************)
handle_logout(S, c, user) ==
  IF DictHas(S.online_users, user)
  THEN broadcast_online_users_update(
         [S EXCEPT !.online_users = DictDel(@, user)], c)
  ELSE resume(S, c)

(***************************************************************************)
(* The group handlers, lines 185-261.  A group's members are a Python set, *)
(* iterated in the order of the members' hashes; the iterator keeps its    *)
(* place in that order and the size the set had when the loop began, and   *)
(* raises RuntimeError when the size has changed.                          *)
(***************************************************************************)
SetIter(members) ==
  [pos |-> 1, used |-> Cardinality(members), len |-> Cardinality(members)]

SetIterNext(order, members, it) ==
  IF it.used # Cardinality(members)
  THEN [kind |-> "raise", e |-> NoUser, it |-> it]
  ELSE LET rest == {i \in it.pos..Len(order) : order[i] \in members}
       IN IF rest = {}
          THEN [kind |-> "stop", e |-> NoUser, it |-> it]
          ELSE LET i == CHOOSE j \in rest : \A j2 \in rest : j <= j2
               IN [kind |-> "item", e |-> order[i],
                   it |-> [it EXCEPT !.pos = i + 1, !.len = @ - 1]]

\* The loop of lines 207-211 up to its next send_message, and lines 213-215
\* when the members are exhausted.  sent_count is counted with the send it
\* follows.
RECURSIVE group_next(_, _)
group_next(S, c) ==
  LET n == SetIterNext(S.hash_order, S.groups[S.loc[c].group],
                       S.loc[c].members)
  IN CASE n.kind = "raise" -> raise(S, c)
       [] n.kind = "stop" ->
            respond(S, c,
                    create_response("group_chat", "success",
                                    [sent_to |-> S.loc[c].sent_count],
                                    MsgSent))
       [] n.kind = "item" ->
            IF n.e # S.loc[c].sender /\ DictHas(S.online_users, n.e)
            THEN [send_message(S, c, DictGet(S.online_users, n.e),
                               S.loc[c].notification)
                    EXCEPT !.loc[c].members = n.it,
                           !.loc[c].sent_count = @ + 1,
                           !.pc[c] = "group"]
            ELSE group_next([S EXCEPT !.loc[c].members = n.it], c)

\* handle_group_chat without the test of lines 196-197.
handle_group_chat_open(S, c, data, sender) ==
  LET group_name == Strip(data.group)
      message == Strip(data.message)
  IN IF group_name = <<>> \/ message = <<>>
     THEN respond(S, c, create_response("group_chat", "error", NoData,
                                        MsgEmptyGroupChat))
     ELSE IF group_name \notin DOMAIN S.groups
     THEN respond(S, c, create_response("group_chat", "error", NoData,
                                        MsgNoSuchGroup))
     ELSE group_next(
            [S EXCEPT
               !.loc[c] =
                  [NoLoc EXCEPT
                     !.op = "group_chat",
                     !.sender = sender,
                     !.group = group_name,
                     !.members = SetIter(S.groups[group_name]),
                     !.notification =
                        create_notification("group_message",
                                            [from |-> sender,
                                             group |-> group_name,
                                             message |-> message])]], c)

handle_group_chat(S, c, data, sender) ==
  LET group_name == Strip(data.group)
      message == Strip(data.message)
  IN IF group_name = <<>> \/ message = <<>>
     THEN respond(S, c, create_response("group_chat", "error", NoData,
                                        MsgEmptyGroupChat))
     ELSE IF group_name \notin DOMAIN S.groups
     THEN respond(S, c, create_response("group_chat", "error", NoData,
                                        MsgNoSuchGroup))
     ELSE IF sender \notin S.groups[group_name]
     THEN respond(S, c, create_response("group_chat", "error", NoData,
                                        MsgNotMember))
     ELSE group_next(
            [S EXCEPT
               !.loc[c] =
                  [NoLoc EXCEPT
                     !.op = "group_chat",
                     !.sender = sender,
                     !.group = group_name,
                     !.members = SetIter(S.groups[group_name]),
                     !.notification =
                        create_notification("group_message",
                                            [from |-> sender,
                                             group |-> group_name,
                                             message |-> message])]], c)

\* handle_create_group with line 228 moved before the test of line 224.
handle_create_group_again(S, c, data, creator) ==
  LET group_name == Strip(data.group_name)
  IN IF group_name = <<>>
     THEN respond(S, c, create_response("create_group", "error", NoData,
                                        MsgEmptyGroupName))
     ELSE IF group_name \in DOMAIN S.groups
     THEN respond([S EXCEPT !.groups[group_name] = {creator}], c,
                  create_response("create_group", "error", NoData,
                                  MsgGroupExists))
     ELSE respond([S EXCEPT !.groups = MapPut(@, group_name, {creator})], c,
                  create_response("create_group", "success", NoData,
                                  MsgGroupCreated))

handle_create_group(S, c, data, creator) ==
  LET group_name == Strip(data.group_name)
  IN IF group_name = <<>>
     THEN respond(S, c, create_response("create_group", "error", NoData,
                                        MsgEmptyGroupName))
     ELSE IF group_name \in DOMAIN S.groups
     THEN respond(S, c, create_response("create_group", "error", NoData,
                                        MsgGroupExists))
     ELSE respond([S EXCEPT !.groups = MapPut(@, group_name, {creator})], c,
                  create_response("create_group", "success", NoData,
                                  MsgGroupCreated))

\* handle_join_group with line 247 replacing the members by the user.
handle_join_group_alone(S, c, data, user) ==
  LET group_name == Strip(data.group_name)
  IN IF group_name = <<>>
     THEN respond(S, c, create_response("join_group", "error", NoData,
                                        MsgEmptyGroupName))
     ELSE IF group_name \notin DOMAIN S.groups
     THEN respond(S, c, create_response("join_group", "error", NoData,
                                        MsgNoSuchGroup))
     ELSE IF user \in S.groups[group_name]
     THEN respond(S, c, create_response("join_group", "error", NoData,
                                        MsgAlreadyMember))
     ELSE respond([S EXCEPT !.groups[group_name] = {user}], c,
                  create_response("join_group", "success", NoData,
                                  MsgJoined))

handle_join_group(S, c, data, user) ==
  LET group_name == Strip(data.group_name)
  IN IF group_name = <<>>
     THEN respond(S, c, create_response("join_group", "error", NoData,
                                        MsgEmptyGroupName))
     ELSE IF group_name \notin DOMAIN S.groups
     THEN respond(S, c, create_response("join_group", "error", NoData,
                                        MsgNoSuchGroup))
     ELSE IF user \in S.groups[group_name]
     THEN respond(S, c, create_response("join_group", "error", NoData,
                                        MsgAlreadyMember))
     ELSE respond([S EXCEPT !.groups[group_name] = @ \cup {user}], c,
                  create_response("join_group", "success", NoData,
                                  MsgJoined))

\* The lists are kept as the sets of their elements.
handle_list_groups(S, c, data, user) ==
  respond(S, c,
          create_response("list_groups", "success",
                          [my_groups |-> {g \in DOMAIN S.groups :
                                           user \in S.groups[g]},
                           all_groups |-> DOMAIN S.groups],
                          MsgNone))

(***************************************************************************)
(* handle_client, lines 272-349.                                           *)
(***************************************************************************)
\* Lines 303-307 without the test of line 304.
dispatch_logout_unchecked(S, c) ==
  handle_logout([S EXCEPT !.loc[c] = [NoLoc EXCEPT !.op = "logout"]],
                c, S.current_user[c])

\* Lines 303-309.
dispatch_logout(S, c) ==
  IF S.current_user[c] # NoUser
  THEN handle_logout([S EXCEPT !.loc[c] = [NoLoc EXCEPT !.op = "logout"]],
                     c, S.current_user[c])
  ELSE respond(S, c, create_response("logout", "error", NoData,
                                     MsgNotLoggedIn))

\* The dispatch without the test of line 311: the handlers of the requests
\* that need a login are called whether current_user is bound or not.
dispatch_unguarded(S, c, message) ==
  CASE message.type = "register" -> handle_register(S, c, message.data)
    [] message.type = "login" -> handle_login(S, c, message.data)
    [] message.type = "logout" -> dispatch_logout(S, c)
    [] message.type = "private_chat" ->
         handle_private_chat(S, c, message.data, S.current_user[c])
    [] message.type = "group_chat" ->
         handle_group_chat(S, c, message.data, S.current_user[c])
    [] message.type = "create_group" ->
         handle_create_group(S, c, message.data, S.current_user[c])
    [] message.type = "join_group" ->
         handle_join_group(S, c, message.data, S.current_user[c])
    [] message.type = "list_groups" ->
         handle_list_groups(S, c, message.data, S.current_user[c])
    [] OTHER ->
         respond(S, c, create_response("unknown", "error", NoData,
                                       MsgUnknownType))

\* Lines 289-329: the dispatch on the type of a request.
dispatch(S, c, message) ==
  CASE message.type = "register" -> handle_register(S, c, message.data)
    [] message.type = "login" -> handle_login(S, c, message.data)
    [] message.type = "logout" -> dispatch_logout(S, c)
    [] OTHER ->
         IF S.current_user[c] # NoUser
         THEN CASE message.type = "private_chat" ->
                     handle_private_chat(S, c, message.data,
                                         S.current_user[c])
                [] message.type = "group_chat" ->
                     handle_group_chat(S, c, message.data,
                                       S.current_user[c])
                [] message.type = "create_group" ->
                     handle_create_group(S, c, message.data,
                                         S.current_user[c])
                [] message.type = "join_group" ->
                     handle_join_group(S, c, message.data,
                                       S.current_user[c])
                [] message.type = "list_groups" ->
                     handle_list_groups(S, c, message.data,
                                        S.current_user[c])
                [] OTHER ->
                     respond(S, c, create_response("unknown", "error",
                                                   NoData, MsgUnknownType))
         ELSE respond(S, c, create_response("auth", "error", NoData,
                                            MsgLoginFirst))

\* Lines 283-284 and 343-349: receive_message returned "", the loop is
\* left and the finally clause runs.
cleanup(S, c) ==
  IF S.current_user[c] # NoUser
     /\ DictHas(S.online_users, S.current_user[c])
  THEN handle_logout([S EXCEPT !.loc[c] = [NoLoc EXCEPT !.op = "close"]],
                     c, S.current_user[c])
  ELSE close_writer(S, c)


(***************************************************************************)
(* The requests a client may send, and the actions.                        *)
(***************************************************************************)
RegisterRequests(names) ==
  [type : {"register"},
   data : [username : names, password : RawNewPasswords]]

LoginRequests(names) ==
  [type : {"login"}, data : [username : names, password : RawPasswords]]

ChatRequests ==
  [type : {"private_chat"}, data : [to : RawNames, message : RawTexts]]

\* logout, and a type the server does not know.
PlainRequests == [type : {"logout", "ping"}, data : {NoData}]

Requests ==
  RegisterRequests(RawNames) \cup LoginRequests(RawNames) \cup ChatRequests
  \cup PlainRequests

\* The mailbox a private_chat would append to is not full, and the entry
\* array of online_users has room for the session a login would add.
WithinBounds(c, message) ==
  /\ (message.type = "private_chat" /\ current_user[c] # NoUser
      /\ Strip(message.data.to) \in DOMAIN offline_messages)
     => Len(offline_messages[Strip(message.data.to)]) < MaxMailbox
  /\ message.type = "login" => Len(online_users.entries) < MaxLogins

\* Lines 282-329: receive_message returns a request, which is handled up
\* to the handler's first suspension or to its response.
Receive(c, message, roster) ==
  /\ pc[c] = "recv"
  /\ WithinBounds(c, message)
  /\ Becomes(dispatch(State, c, message), roster)

\* Lines 282-284, 343-349: the stream ended (or a frame was cut short).
Disconnect(c, roster) ==
  /\ pc[c] = "recv"
  /\ Becomes(cleanup(State, c), roster)

\* The task resumes from the send_message of line 143.
DrainStep(c) ==
  /\ pc[c] = "drain"
  /\ Becomes(login_drain_next(State, c), FALSE)

\* The task resumes from the send_message of line 89.
BroadcastStep(c, roster) ==
  /\ pc[c] = "broadcast"
  /\ Becomes(broadcast_next(State, c), roster)

\* The task resumes from the send_message of line 176.
ReplyStep(c) ==
  /\ pc[c] = "reply"
  /\ Becomes(respond(State, c, loc[c].response), FALSE)

Init ==
  /\ users_db = EmptyMap
  /\ online_users = EmptyDict
  /\ offline_messages = EmptyMap
  /\ groups = EmptyMap
  /\ hash_order = <<UserA, UserB, UserC>>
  /\ current_user = [c \in Conns |-> NoUser]
  /\ pc = [c \in Conns |-> "recv"]
  /\ loc = [c \in Conns |-> NoLoc]
  /\ writer_closed = [c \in Conns |-> FALSE]
  /\ sent = <<>>
  /\ last_update = [c \in Conns |-> NoData]

Next ==
  \E c \in Conns :
    \/ \E message \in Requests : Receive(c, message, FALSE)
    \/ Disconnect(c, FALSE)
    \/ DrainStep(c)
    \/ BroadcastStep(c, FALSE)
    \/ ReplyStep(c)

Spec == Init /\ [][Next]_vars

(***************************************************************************)
(* The specification for the claims about the roster that the sessions     *)
(* are sent: three users, who register, log in and log out, and the last   *)
(* update_online_users frame written to each connection is recorded.       *)
(***************************************************************************)
RosterRequests ==
  [type : {"register", "login"},
   data : [username : Users \cup {UserC}, password : {Password}]]
  \cup [type : {"logout"}, data : {NoData}]

NextRoster ==
  \E c \in Conns :
    \/ \E message \in RosterRequests : Receive(c, message, TRUE)
    \/ Disconnect(c, TRUE)
    \/ BroadcastStep(c, TRUE)

SpecRoster == Init /\ [][NextRoster]_vars

\* The same, where a task suspended in send_message is resumed in the end:
\* writer.drain() returns once the peer has read or the connection is lost.
SpecRosterFair ==
  SpecRoster /\ \A c \in Conns : WF_vars(BroadcastStep(c, TRUE))

(***************************************************************************)
(* The specification for the claims about groups: three users, who        *)
(* register, log in, log out, create and join a group and write to it.    *)
(* The three users send the same requests, so every order of their hashes  *)
(* is the order of Init with the users renamed.                            *)
(***************************************************************************)
GroupG == <<"g">>

RawGroupNames == {GroupG, <<>>, <<" ", "g">>}

GroupRequests ==
  [type : {"create_group", "join_group"},
   data : [group_name : RawGroupNames]]
  \cup [type : {"group_chat"},
        data : [group : RawGroupNames, message : RawTexts]]
  \cup [type : {"list_groups"}, data : {NoData}]

\* The requests of the clients under SpecGroups.
GroupsRequests ==
  [type : {"register", "login"},
   data : [username : Users \cup {UserC}, password : {Password}]]
  \cup [type : {"logout", "list_groups"}, data : {NoData}]
  \cup [type : {"create_group", "join_group"},
        data : [group_name : {GroupG}]]
  \cup [type : {"group_chat"},
        data : [group : {GroupG}, message : {<<"x">>}]]

\* The task resumes from the send_message of line 210.
GroupStep(c) ==
  /\ pc[c] = "group"
  /\ Becomes(group_next(State, c), FALSE)

NextGroups ==
  \E c \in Conns :
    \/ \E message \in GroupsRequests :
         /\ message.type = "login"
            => Len(online_users.entries) < MaxGroupLogins
         /\ Receive(c, message, FALSE)
    \/ BroadcastStep(c, FALSE)
    \/ GroupStep(c)

SpecGroups == Init /\ [][NextGroups]_vars


(***************************************************************************)
(* receive_message and json.loads, lines 55-77 and 286-290: what the       *)
(* server does with the bytes of a frame.  What a client sends up to the   *)
(* end of one frame, or up to the end of the stream, is a record: whether  *)
(* the four length bytes arrived, the length they give, and the payload    *)
(* bytes that arrived.  The bytes of the model are the ASCII characters    *)
(* "{", "}", "[", "]", " " and "x", and the byte 0xFF, which no UTF-8      *)
(* text contains.  Receive above is the case of a frame whose payload is   *)
(* a JSON object with a "type" and a "data" member.                        *)
(***************************************************************************)
MsgParseError == "malformed message"                             \* 332

ByteFF == "0xFF"

\* bytes.decode('utf-8'): an ASCII byte is the character, 0xFF raises
\* UnicodeDecodeError.
decode(bytes) ==
  IF \E i \in 1..Len(bytes) : bytes[i] = ByteFF
  THEN [ok |-> FALSE, text |-> <<>>]
  ELSE [ok |-> TRUE, text |-> bytes]

\* receive_message: "" when the stream ends in the length bytes
\* (IncompleteReadError, line 72), when it ends in the payload
\* (ConnectionResetError, lines 68 and 75), and when the payload is not
\* UTF-8 (line 75); the decoded payload otherwise, which is "" for a frame
\* of length 0.
receive_message(frame) ==
  IF ~frame.header THEN <<>>
  ELSE IF Len(frame.bytes) < frame.length THEN <<>>
  ELSE LET d == decode(SubSeq(frame.bytes, 1, frame.length))
       IN IF d.ok THEN d.text ELSE <<>>

JsonFail == [ok |-> FALSE, object |-> FALSE, rest |-> <<>>]

\* The JSON value at the head of s, for the characters of the model: an
\* object can only be empty (a member needs a string), an array has no
\* element or one (two need a comma), and "x" begins no value.
RECURSIVE json_value(_)
json_value(s) ==
  IF s = <<>> THEN JsonFail
  ELSE IF Head(s) = "{"
  THEN LET r == LStrip(Tail(s))
       IN IF r # <<>> /\ Head(r) = "}"
          THEN [ok |-> TRUE, object |-> TRUE, rest |-> Tail(r)]
          ELSE JsonFail
  ELSE IF Head(s) = "["
  THEN LET r == LStrip(Tail(s))
       IN IF r # <<>> /\ Head(r) = "]"
          THEN [ok |-> TRUE, object |-> FALSE, rest |-> Tail(r)]
          ELSE LET v == json_value(r)
                   r2 == LStrip(v.rest)
               IN IF v.ok /\ r2 # <<>> /\ Head(r2) = "]"
                  THEN [ok |-> TRUE, object |-> FALSE, rest |-> Tail(r2)]
                  ELSE JsonFail
  ELSE JsonFail

\* json.loads: "object" for a dict, "other" for another value, "error" for
\* JSONDecodeError.
json_loads(text) ==
  LET v == json_value(LStrip(text))
  IN IF v.ok /\ LStrip(v.rest) = <<>>
     THEN IF v.object THEN "object" ELSE "other"
     ELSE "error"

\* Lines 289-290 for the object {}: message.get("type", "") is "" and
\* message.get("data", {}) is {}.
EmptyObject == [type |-> "", data |-> NoData]

\* Lines 282-337 for one frame: the loop is left when receive_message
\* returns ""; a payload that is not JSON is answered with the parse error
\* (lines 331-333); a JSON value that is not an object has no get
\* (AttributeError, lines 334-337).
handle_frame(S, c, frame) ==
  LET raw_message == receive_message(frame)
  IN IF raw_message = <<>> THEN cleanup(S, c)
     ELSE CASE json_loads(raw_message) = "error" ->
                 respond(S, c, create_response("parse", "error", NoData,
                                               MsgParseError))
            [] json_loads(raw_message) = "object" ->
                 dispatch(S, c, EmptyObject)
            [] json_loads(raw_message) = "other" -> raise(S, c)

Payloads ==
  {<<>>, <<" ">>, <<"x">>, <<"{">>, <<"{", "}">>, <<"{", " ", "}">>,
   <<"[", "]">>, <<"[", "{", "}", "]">>, <<"[", "]", "x">>, <<ByteFF>>,
   <<"{", "}", ByteFF>>}

\* Every payload as a whole frame, a stream that ends before the length
\* bytes, and a stream that ends in the payload.
Frames ==
  {[header |-> TRUE, length |-> Len(p), bytes |-> p] : p \in Payloads}
  \cup {[header |-> FALSE, length |-> 0, bytes |-> <<>>],
        [header |-> TRUE, length |-> 2, bytes |-> <<"{">>]}

\* The requests of the clients under SpecFrames.
FramesRequests ==
  [type : {"register", "login"},
   data : [username : Users, password : {Password}]]
  \cup [type : {"logout"}, data : {NoData}]

ReceiveFrame(c, frame) ==
  /\ pc[c] = "recv"
  /\ Becomes(handle_frame(State, c, frame), FALSE)

NextFrames ==
  \E c \in Conns :
    \/ \E message \in FramesRequests :
         /\ message.type = "login" => Len(online_users.entries) < MaxLogins
         /\ Receive(c, message, FALSE)
    \/ \E frame \in Frames : ReceiveFrame(c, frame)
    \/ BroadcastStep(c, FALSE)

SpecFrames == Init /\ [][NextFrames]_vars


(***************************************************************************)
(* What the claims speak of.                                               *)
(***************************************************************************)
\* The last step was task c sending this response to its own connection,
\* and nothing else.
Answered(c, response) == sent = <<[by |-> c, to |-> c, msg |-> response]>>

ErrorResponse(msg_type, message) ==
  create_response(msg_type, "error", NoData, message)

SuccessResponse(msg_type, message) ==
  create_response(msg_type, "success", NoData, message)

\* A frame is a response (and not a notification).
IsResponse(msg) == "status" \in DOMAIN msg

\* The last step ended with task c sending a response to its connection.
ResponseSent(c) ==
  /\ sent # <<>>
  /\ sent[Len(sent)].by = c
  /\ sent[Len(sent)].to = c
  /\ IsResponse(sent[Len(sent)].msg)

\* The username and the password of the request are those of a registered
\* user.
ValidCredentials(message) ==
  /\ Strip(message.data.username) \in DOMAIN users_db
  /\ users_db[Strip(message.data.username)].password_hash
       = hash_password(Strip(message.data.password))

\* The snapshot a broadcast would carry in this state.
Roster == [online_users |-> DictKeys(online_users),
           registered_users |-> DOMAIN users_db]

\* The state right after task c, waiting in receive_message, has been
\* given this request: at the handler's first suspension or at its
\* response.
After(c, message) == dispatch(State, c, message)

\* The frames of the step that led to S are this response of task c to its
\* own connection, and nothing else.
AnsweredIn(S, c, response) ==
  S.sent = <<[by |-> c, to |-> c, msg |-> response]>>

\* --------------------------------------------------------------------- C1
\* C1, first half: in every reachable state, a login with a registered
\* user's credentials for a username that is in online_users is answered
\* with the "already online" error and leaves online_users as it is.
C1_OnlineLoginRefused ==
  \A c \in Conns : \A message \in LoginRequests(RawNames) :
    (/\ pc[c] = "recv"
     /\ ValidCredentials(message)
     /\ DictHas(online_users, Strip(message.data.username)))
    => /\ AnsweredIn(After(c, message), c,
                     ErrorResponse("login", MsgAlreadyOnline))
       /\ After(c, message).online_users = online_users

\* C1: a login for a username that is in online_users is refused as
\* "already online" and changes nothing, and of the logins for one username
\* the one that is not refused (it created the session) is answered with
\* the login success response: of two concurrent valid logins exactly one
\* gets a success response and the other the "already online" error.
C1_LoginRace ==
  [][/\ C1_OnlineLoginRefused
     /\ \A c \in Conns :
          (loc[c].op = "login" /\ pc'[c] = "recv")
          => /\ ResponseSent(c)'
             /\ sent'[Len(sent')].msg.type = "login_response"
             /\ sent'[Len(sent')].msg.status = "success"]_vars


\* --------------------------------------------------------------------- C2
\* C2: in every reachable state, a login request on a connection whose
\* current_user is bound is answered with an error response and changes
\* neither that current_user nor online_users, whatever it carries.
C2_NoLoginWhileAuthenticated ==
  \A c \in Conns : \A message \in LoginRequests(RawNames) :
    (pc[c] = "recv" /\ current_user[c] # NoUser)
    => /\ After(c, message).pc[c] = "recv"
       /\ Len(After(c, message).sent) = 1
       /\ After(c, message).sent[1].to = c
       /\ IsResponse(After(c, message).sent[1].msg)
       /\ After(c, message).sent[1].msg.status = "error"
       /\ After(c, message).current_user[c] = current_user[c]
       /\ After(c, message).online_users = online_users

\* --------------------------------------------------------------------- C3
\* C3: once a connection's task has ended with writer.close(), no entry of
\* online_users holds that connection's writer (so no login is refused as
\* "already online" because of a session of a dead connection).
C3_ClosedHoldsNoSession ==
  \A c \in Conns :
    pc[c] = "closed"
    => \A u \in DictKeys(online_users) : DictGet(online_users, u) # c


\* --------------------------------------------------------------------- C5
\* A private_chat request that passes the checks of lines 158-166.
ValidChat(c, message) ==
  /\ current_user[c] # NoUser
  /\ Strip(message.data.to) # <<>>
  /\ Strip(message.data.message) # <<>>
  /\ Strip(message.data.to) # current_user[c]
  /\ Strip(message.data.to) \in DOMAIN users_db

ChatNotification(c, message) ==
  create_notification("private_message",
                      [from |-> current_user[c],
                       message |-> Strip(message.data.message)])

\* The mailbox of user u in S, empty when u has no entry.
Mailbox(S, u) ==
  IF u \in DOMAIN S.offline_messages THEN S.offline_messages[u] ELSE <<>>

\* C5: a valid private_chat to a registered user other than the sender
\* either writes exactly one private_message notification to the writer the
\* session registry holds for the target, stores nothing and is then
\* answered "sent", or appends exactly that notification to the tail of the
\* target's mailbox, writes nothing to any other connection and is answered
\* "stored offline"; the first when the target is in online_users, the
\* second when it is not.
C5_PrivateChatRouted ==
  /\ \A c \in Conns : \A message \in ChatRequests :
       (pc[c] = "recv" /\ ValidChat(c, message))
       => IF DictHas(online_users, Strip(message.data.to))
          THEN /\ After(c, message).sent
                    = <<[by |-> c,
                         to |-> DictGet(online_users,
                                        Strip(message.data.to)),
                         msg |-> ChatNotification(c, message)]>>
               /\ After(c, message).offline_messages = offline_messages
               /\ After(c, message).pc[c] = "reply"
          ELSE /\ AnsweredIn(After(c, message), c,
                             SuccessResponse("private_chat",
                                             MsgStoredOffline))
               /\ \A u \in DOMAIN users_db :
                    Mailbox(After(c, message), u)
                      = IF u = Strip(message.data.to)
                        THEN Append(Mailbox(State, u),
                                    ChatNotification(c, message))
                        ELSE Mailbox(State, u)
               /\ DOMAIN After(c, message).offline_messages
                    \subseteq DOMAIN users_db
  /\ \A c \in Conns :
       pc[c] = "reply"
       => /\ loc[c].response = SuccessResponse("private_chat", MsgSent)
          /\ AnsweredIn(respond(State, c, loc[c].response), c,
                        SuccessResponse("private_chat", MsgSent))
          /\ respond(State, c, loc[c].response).offline_messages
               = offline_messages

\* A private_chat has just been forwarded to the connection of another
\* user, while a mailbox holds a message that was stored.
C5_Witness ==
  \E c \in Conns : \E d \in Conns \ {c} :
    /\ pc[c] = "reply"
    /\ Len(sent) = 1 /\ sent[1].by = c /\ sent[1].to = d
    /\ sent[1].msg.type = "private_message"
    /\ \E u \in DOMAIN offline_messages : Len(offline_messages[u]) > 0

\* --------------------------------------------------------------------- C7
\* The state right after the stream of task c, waiting in receive_message,
\* has ended: at the first suspension of the finally clause or at its end.
AfterClose(c) == cleanup(State, c)

\* The step that led to S began a broadcast of S's roster by task c: with
\* no session left there is nobody to send to, otherwise the first frame of
\* the broadcast has been written.
BroadcastIssuedIn(S, c) ==
  IF DictUsed(S.online_users) = 0
  THEN S.sent = <<>>
  ELSE /\ Len(S.sent) = 1
       /\ S.sent[1].by = c
       /\ S.sent[1].to \in DictValues(S.online_users)
       /\ S.sent[1].msg
            = create_notification("update_online_users",
                                  [online_users |-> DictKeys(S.online_users),
                                   registered_users |-> DOMAIN S.users_db])

\* C7: when the stream of a connection ends with current_user bound, the
\* user is removed from online_users and one broadcast is begun; with
\* current_user unbound online_users is left alone, nothing is sent and
\* the writer is closed; and a task that has ended takes no further step.
C7_CloseLogsOutOnce ==
  [][/\ \A c \in Conns :
          pc[c] = "recv"
          => IF current_user[c] # NoUser
             THEN /\ ~DictHas(AfterClose(c).online_users, current_user[c])
                  /\ BroadcastIssuedIn(AfterClose(c), c)
             ELSE /\ AfterClose(c).online_users = online_users
                  /\ AfterClose(c).sent = <<>>
                  /\ AfterClose(c).pc[c] = "closed"
     /\ \A c \in Conns :
          (loc[c].op = "close" /\ pc'[c] = "broadcast")
          => loc'[c].notification = loc[c].notification
     /\ \A c \in Conns :
          pc[c] \in Ended
          => /\ pc'[c] = pc[c]
             /\ current_user'[c] = current_user[c]
             /\ \A i \in 1..Len(sent') : sent'[i].by # c]_vars

\* --------------------------------------------------------------------- C9
LogoutRequest == [type |-> "logout", data |-> NoData]

\* Task c is back in receive_message in S, unbound, its last frame being
\* the logout success response.
LoggedOutIn(S, c) ==
  /\ S.current_user[c] = NoUser
  /\ S.sent # <<>>
  /\ S.sent[Len(S.sent)]
       = [by |-> c, to |-> c,
          msg |-> SuccessResponse("logout", MsgLoggedOut)]

\* C9: a logout request on a connection whose current_user is bound removes
\* the user from online_users and begins a broadcast to the sessions that
\* remain, and whenever the request's handling ends, at once or after other
\* tasks have run during the broadcast, current_user is unbound and the
\* frame sent last is the logout success response.
C9_LogoutCompletes ==
  \A c \in Conns :
    /\ (pc[c] = "recv" /\ current_user[c] # NoUser)
       => /\ ~DictHas(After(c, LogoutRequest).online_users, current_user[c])
          /\ (After(c, LogoutRequest).pc[c] = "recv"
              => LoggedOutIn(After(c, LogoutRequest), c))
          /\ (After(c, LogoutRequest).pc[c] # "recv"
              => BroadcastIssuedIn(After(c, LogoutRequest), c))
    /\ (pc[c] = "broadcast" /\ loc[c].op = "logout"
        /\ broadcast_next(State, c).pc[c] = "recv")
       => LoggedOutIn(broadcast_next(State, c), c)

\* -------------------------------------------------------------------- C10
\* C10: a logout request on a connection whose current_user is unbound is
\* answered with the "not logged in" error response and nothing else is
\* sent; users_db, online_users, offline_messages and every connection's
\* current_user are unchanged, and the task is back in receive_message with
\* its writer open.
C10_LogoutUnauthenticated ==
  \A c \in Conns :
    (pc[c] = "recv" /\ current_user[c] = NoUser)
    => /\ AnsweredIn(After(c, LogoutRequest), c,
                     ErrorResponse("logout", MsgNotLoggedIn))
       /\ After(c, LogoutRequest).users_db = users_db
       /\ After(c, LogoutRequest).online_users = online_users
       /\ After(c, LogoutRequest).offline_messages = offline_messages
       /\ After(c, LogoutRequest).current_user = current_user
       /\ After(c, LogoutRequest).pc = pc
       /\ After(c, LogoutRequest).loc = loc
       /\ After(c, LogoutRequest).writer_closed = writer_closed
       /\ ~writer_closed[c]

\* A logout has just been refused on an unbound connection while another
\* user's session is online.
C10_Witness ==
  \E c \in Conns :
    /\ Answered(c, ErrorResponse("logout", MsgNotLoggedIn))
    /\ current_user[c] = NoUser
    /\ pc[c] = "recv"
    /\ DictUsed(online_users) > 0


\* --------------------------------------------------------------------- C4
\* A frame of S.sent is a private_message notification.
DeliversIn(S) ==
  \E i \in 1..Len(S.sent) : S.sent[i].msg.type = "private_message"

\* C4: a successful login of a user whose mailbox holds M1..MN writes M1
\* to the logging-in connection and then, one drain step after the other,
\* M2..MN and no further private_message, after which the user has no
\* mailbox entry; a login of a user with no stored message writes no
\* private_message; and what one login is delivering is not delivered again
\* by a login on another connection.
C4_OfflineDelivery ==
  /\ \A c \in Conns : \A message \in LoginRequests(RawNames) :
       (/\ pc[c] = "recv" /\ ValidCredentials(message)
        /\ ~DictHas(online_users, Strip(message.data.username)))
       => IF Mailbox(State, Strip(message.data.username)) = <<>>
          THEN ~DeliversIn(After(c, message))
          ELSE /\ After(c, message).pc[c] = "drain"
               /\ After(c, message).sent
                    = <<[by |-> c, to |-> c,
                         msg |-> Mailbox(State,
                                         Strip(message.data.username))[1]]>>
               /\ \A d \in Conns \ {c} :
                    ~(pc[d] = "drain"
                      /\ loc[d].username = Strip(message.data.username))
  /\ \A c \in Conns :
       pc[c] = "drain"
       => IF loc[c].idx <= Len(loc[c].backlog)
          THEN /\ login_drain_next(State, c).pc[c] = "drain"
               /\ login_drain_next(State, c).sent
                    = <<[by |-> c, to |-> c,
                         msg |-> loc[c].backlog[loc[c].idx]]>>
          ELSE /\ ~DeliversIn(login_drain_next(State, c))
               /\ Mailbox(login_drain_next(State, c), loc[c].username) = <<>>

\* --------------------------------------------------------------------- C6
\* C6: while task d is draining the mailbox of user u, a valid private_chat
\* to u handled on another connection writes its notification to d's
\* connection, appends nothing to any mailbox and leaves d's place in the
\* backlog alone; and d's next drain step writes, as one frame, the backlog
\* message its index stands at.
C6_ChatDuringDrain ==
  \A d \in Conns :
    pc[d] = "drain"
    => /\ \A c \in Conns \ {d} : \A message \in ChatRequests :
            (/\ pc[c] = "recv" /\ ValidChat(c, message)
             /\ Strip(message.data.to) = loc[d].username)
            => /\ After(c, message).sent
                    = <<[by |-> c, to |-> d,
                         msg |-> ChatNotification(c, message)]>>
               /\ After(c, message).offline_messages = offline_messages
               /\ After(c, message).loc[d] = loc[d]
       /\ loc[d].idx <= Len(loc[d].backlog)
          => login_drain_next(State, d).sent
               = <<[by |-> d, to |-> d, msg |-> loc[d].backlog[loc[d].idx]]>>

\* --------------------------------------------------------------------- C8
\* C8: whenever no broadcast is under way, the update_online_users frame
\* written last to the writer of every session of online_users carries the
\* present keys of online_users and of users_db.
C8_LastUpdateMatches ==
  (\A c \in Conns : pc[c] \notin Suspended)
  => \A u \in DictKeys(online_users) :
       last_update[DictGet(online_users, u)] = Roster


\* -------------------------------------------------------------------- C11
\* Task c, suspended in the broadcast of its login, is about to send the
\* login success response.
LoginSucceeds(c) ==
  /\ pc[c] = "broadcast"
  /\ loc[c].op = "login"
  /\ broadcast_next(State, c).pc[c] = "recv"
  /\ broadcast_next(State, c).sent
       = <<[by |-> c, to |-> c,
            msg |-> create_response("login", "success",
                                    [online_users |-> loc[c].online_list,
                                     registered_users |->
                                        loc[c].registered_list],
                                    MsgLoggedIn)]>>

OtherRequests ==
  ChatRequests \cup GroupRequests \cup [type : {"ping"}, data : {NoData}]

\* Nothing but the frames sent differs between S and the present state.
Untouched(S) == [S EXCEPT !.sent = <<>>] = State

\* C12: a request of any type other than register, login and logout on a
\* connection whose current_user is unbound is answered with the
\* authorization error and nothing else is sent; no registry, mailbox,
\* group, current_user or task position changes, and the task is back in
\* receive_message with its writer open.
C12_LoginRequired ==
  \A c \in Conns : \A message \in OtherRequests :
    (pc[c] = "recv" /\ current_user[c] = NoUser)
    => /\ AnsweredIn(After(c, message), c,
                     ErrorResponse("auth", MsgLoginFirst))
       /\ Untouched(After(c, message))
       /\ ~writer_closed[c]

\* A request has just been refused for want of a login while a session is
\* online and a group exists.
C12_Witness ==
  \E c \in Conns :
    /\ Answered(c, ErrorResponse("auth", MsgLoginFirst))
    /\ current_user[c] = NoUser
    /\ DictUsed(online_users) > 0
    /\ DOMAIN groups # {}


\* -------------------------------------------------------------------- C13
GroupChatRequests ==
  [type : {"group_chat"}, data : [group : RawGroupNames, message : RawTexts]]

\* Task c, waiting in receive_message and bound to a user, is given a
\* group_chat for an existing group that the user is not a member of.
NonMemberChat(c, message) ==
  /\ pc[c] = "recv"
  /\ current_user[c] # NoUser
  /\ Strip(message.data.group) \in DOMAIN groups
  /\ current_user[c] \notin groups[Strip(message.data.group)]

\* C13 as stated: every group_chat of a non-member to an existing group is
\* answered with the "not a member" error, and nothing else is sent or
\* changed.
C13_NonMemberAlwaysNotMember ==
  \A c \in Conns : \A message \in GroupChatRequests :
    NonMemberChat(c, message)
    => /\ AnsweredIn(After(c, message), c,
                     ErrorResponse("group_chat", MsgNotMember))
       /\ Untouched(After(c, message))

\* C13, amended: a group_chat of a non-member to an existing group is
\* answered with one error response, which is the "not a member" error
\* when the message is not empty after trimming (and the "empty" error of
\* line 191 when it is); no group_message or other frame is written to any
\* connection, and no mailbox, group or registry changes.
C13_GroupIsolation ==
  \A c \in Conns : \A message \in GroupChatRequests :
    NonMemberChat(c, message)
    => /\ AnsweredIn(After(c, message), c,
                     ErrorResponse("group_chat",
                                   IF Strip(message.data.message) = <<>>
                                   THEN MsgEmptyGroupChat
                                   ELSE MsgNotMember))
       /\ Untouched(After(c, message))

\* A non-member has just been refused while a member of the group is
\* online.
C13_Witness ==
  \E c \in Conns :
    /\ Answered(c, ErrorResponse("group_chat", MsgNotMember))
    /\ current_user[c] # NoUser
    /\ \E g \in DOMAIN groups :
         /\ current_user[c] \notin groups[g]
         /\ \E u \in groups[g] : DictHas(online_users, u)


\* -------------------------------------------------------------------- C14
\* Task c, waiting in receive_message and bound to a member of an existing
\* group, is given a group_chat for it with a message.
MemberChat(c, message) ==
  /\ pc[c] = "recv"
  /\ current_user[c] # NoUser
  /\ Strip(message.data.message) # <<>>
  /\ Strip(message.data.group) \in DOMAIN groups
  /\ current_user[c] \in groups[Strip(message.data.group)]

\* The members of group g that are online and are not the sender.
Recipients(g, sender) ==
  {u \in groups[g] \ {sender} : DictHas(online_users, u)}

GroupNotification(sender, g, message) ==
  create_notification("group_message",
                      [from |-> sender, group |-> g, message |-> message])

\* The step that led to S was task c writing the notification of its
\* group_chat to the writer of one of these users, and nothing else.
GroupSendIn(S, c, users, notification) ==
  /\ S.pc[c] = "group"
  /\ \E u \in users :
       S.sent = <<[by |-> c, to |-> DictGet(online_users, u),
                   msg |-> notification]>>
  /\ S.offline_messages = offline_messages

\* C14: a valid group_chat of a member writes the group_message
\* notification to one online member other than the sender after the
\* other, stores nothing in any mailbox, and ends with the success
\* response whose sent_to is the number of notifications written; with no
\* such member it is answered at once with sent_to = 0.
C14_GroupChatDelivery ==
  /\ \A c \in Conns : \A message \in GroupChatRequests :
       MemberChat(c, message)
       => IF Recipients(Strip(message.data.group), current_user[c]) = {}
          THEN /\ AnsweredIn(After(c, message), c,
                             create_response("group_chat", "success",
                                             [sent_to |-> 0], MsgSent))
               /\ Untouched(After(c, message))
          ELSE GroupSendIn(After(c, message), c,
                           Recipients(Strip(message.data.group),
                                      current_user[c]),
                           GroupNotification(current_user[c],
                                             Strip(message.data.group),
                                             Strip(message.data.message)))
  /\ \A c \in Conns :
       pc[c] = "group"
       => \/ GroupSendIn(group_next(State, c), c,
                         Recipients(loc[c].group, loc[c].sender),
                         loc[c].notification)
          \/ /\ AnsweredIn(group_next(State, c), c,
                           create_response("group_chat", "success",
                                           [sent_to |-> loc[c].sent_count],
                                           MsgSent))
             /\ loc[c].sent_count > 0
             /\ group_next(State, c).offline_messages = offline_messages


\* -------------------------------------------------------------------- C15
\* C15: a private_chat whose target is, after trimming, the username the
\* connection is bound to is answered with one private_chat error response
\* (the self-chat error when target and message are not empty) and nothing
\* else is sent; no mailbox, registry or task position changes.
C15_SelfChatRejected ==
  \A c \in Conns : \A message \in ChatRequests :
    (/\ pc[c] = "recv" /\ current_user[c] # NoUser
     /\ Strip(message.data.to) = current_user[c])
    => /\ AnsweredIn(After(c, message), c,
                     ErrorResponse("private_chat",
                                   IF Strip(message.data.message) = <<>>
                                   THEN MsgEmptyChat ELSE MsgSelfChat))
       /\ Untouched(After(c, message))

\* A self-chat has just been refused on the connection that holds the
\* user's session.
C15_Witness ==
  \E c \in Conns :
    /\ Answered(c, ErrorResponse("private_chat", MsgSelfChat))
    /\ DictHas(online_users, current_user[c])
    /\ DictGet(online_users, current_user[c]) = c


\* -------------------------------------------------------------------- C16
\* Register requests, among them some for a registered name with another
\* password.
AnyRegisterRequests ==
  RegisterRequests(RawNames)
  \cup [type : {"register"},
        data : [username : Users, password : {WrongPassword}]]

\* The request passes the checks of lines 96-100.
NewUser(message) ==
  /\ Strip(message.data.username) # <<>>
  /\ Strip(message.data.password) # <<>>
  /\ Strip(message.data.username) \notin DOMAIN users_db

\* C16: a register request, on a bound or an unbound connection, changes
\* no current_user and not online_users; when username and password are
\* not empty after trimming and the username is new, the user is added with
\* the hash of the password, every other record is kept, and the request
\* ends with the register success response; otherwise it is answered with
\* an error ("already exists" for a registered name) and users_db is
\* unchanged.
C16_Register ==
  /\ \A c \in Conns : \A message \in AnyRegisterRequests :
       pc[c] = "recv"
       => /\ After(c, message).current_user = current_user
          /\ After(c, message).online_users = online_users
          /\ IF NewUser(message)
             THEN /\ After(c, message).users_db
                       = MapPut(users_db, Strip(message.data.username),
                                [password_hash |->
                                   hash_password(
                                     Strip(message.data.password))])
                  /\ After(c, message).pc[c] = "recv"
                     => AnsweredIn(After(c, message), c,
                                   SuccessResponse("register",
                                                   MsgRegistered))
             ELSE /\ AnsweredIn(After(c, message), c,
                                ErrorResponse(
                                  "register",
                                  IF Strip(message.data.username) = <<>>
                                     \/ Strip(message.data.password) = <<>>
                                  THEN MsgEmptyCredentials
                                  ELSE MsgUserExists))
                  /\ Untouched(After(c, message))
  /\ \A c \in Conns :
       (/\ pc[c] = "broadcast" /\ loc[c].op = "register"
        /\ broadcast_next(State, c).pc[c] = "recv")
       => AnsweredIn(broadcast_next(State, c), c,
                     SuccessResponse("register", MsgRegistered))


\* -------------------------------------------------------------------- C17
\* C17 as stated: a login for an unregistered username is answered with the
\* "no such user" error and a login for a registered username with a
\* password that does not match with the "wrong password" error, and
\* nothing else is sent or changed.
C17_LoginRefusedAlways ==
  \A c \in Conns : \A message \in LoginRequests(RawNames \cup {UserC}) :
    (pc[c] = "recv" /\ ~ValidCredentials(message))
    => /\ AnsweredIn(After(c, message), c,
                     ErrorResponse("login",
                                   IF Strip(message.data.username)
                                        \in DOMAIN users_db
                                   THEN MsgWrongPassword
                                   ELSE MsgNoSuchUser))
       /\ Untouched(After(c, message))

\* C17, amended: the same for the logins whose username and password are
\* not empty after trimming; a login with an empty one is answered with the
\* "must not be empty" error of line 119; in each case no session is
\* created, no current_user bound, no mailbox drained or cleared and no
\* broadcast begun.
C17_LoginRefused ==
  \A c \in Conns : \A message \in LoginRequests(RawNames \cup {UserC}) :
    (pc[c] = "recv" /\ ~ValidCredentials(message))
    => /\ AnsweredIn(After(c, message), c,
                     ErrorResponse("login",
                                   IF Strip(message.data.username) = <<>>
                                      \/ Strip(message.data.password) = <<>>
                                   THEN MsgEmptyCredentials
                                   ELSE IF Strip(message.data.username)
                                             \in DOMAIN users_db
                                   THEN MsgWrongPassword
                                   ELSE MsgNoSuchUser))
       /\ Untouched(After(c, message))

\* A login has just been refused for its password while the user has
\* messages waiting.
C17_Witness ==
  \E c \in Conns : \E u \in DOMAIN offline_messages :
    /\ Answered(c, ErrorResponse("login", MsgWrongPassword))
    /\ ~DictHas(online_users, u)
    /\ Len(offline_messages[u]) > 0


\* -------------------------------------------------------------------- C18
\* C18: every username that has an entry in online_users is a key of
\* users_db.
C18_SessionsAreRegistered ==
  DictKeys(online_users) \subseteq DOMAIN users_db

\* Two sessions are online, and the login that created one of them is
\* under way.
C18_Witness ==
  /\ DictUsed(online_users) = 2
  /\ \E c \in Conns :
       /\ pc[c] = "broadcast" /\ loc[c].op = "login"
       /\ DictHas(online_users, loc[c].username)


\* -------------------------------------------------------------------- C19
\* C19: in every step, every group stays and keeps its members; a group
\* that appears has the user of the connection whose create_group has just
\* succeeded as its only member, and every create_group success creates
\* one; a member that appears is the user of the connection whose
\* join_group for that group has just succeeded, and is the only one added.
C19_GroupsOnlyGrow ==
  [][/\ \A g \in DOMAIN groups :
          /\ g \in DOMAIN groups'
          /\ groups[g] \subseteq groups'[g]
          /\ \A u \in groups'[g] \ groups[g] :
               /\ groups'[g] = groups[g] \cup {u}
               /\ \E c \in Conns :
                    /\ pc[c] = "recv" /\ current_user[c] = u
                    /\ Answered(c, SuccessResponse("join_group",
                                                   MsgJoined))'
     /\ \A g \in DOMAIN groups' \ DOMAIN groups :
          \E c \in Conns :
            /\ pc[c] = "recv" /\ current_user[c] # NoUser
            /\ groups'[g] = {current_user[c]}
            /\ Answered(c, SuccessResponse("create_group",
                                           MsgGroupCreated))'
     /\ \A c \in Conns :
          (pc[c] = "recv"
           /\ Answered(c, SuccessResponse("create_group",
                                          MsgGroupCreated))')
          => DOMAIN groups' # DOMAIN groups]_vars

\* A user has just joined a group that had members.
C19_Witness ==
  \E c \in Conns : \E g \in DOMAIN groups :
    /\ Answered(c, SuccessResponse("join_group", MsgJoined))
    /\ current_user[c] \in groups[g]
    /\ Cardinality(groups[g]) >= 2


\* -------------------------------------------------------------------- C20
\* Requests of every type, with and without empty fields, for registered and
\* unregistered names, for existing and missing groups.
AllRequests ==
  [type : {"register"},
   data : [username : RawNames, password : {Password, <<>>}]]
  \cup [type : {"login"},
        data : [username : RawNames,
                password : {Password, WrongPassword, <<>>}]]
  \cup ChatRequests \cup PlainRequests \cup GroupRequests

\* The step that led to S ended with task c sending a response with status
\* "error".
RefusedIn(S, c) ==
  /\ S.sent # <<>>
  /\ S.sent[Len(S.sent)].by = c
  /\ IsResponse(S.sent[Len(S.sent)].msg)
  /\ S.sent[Len(S.sent)].msg.status = "error"

\* C20: whenever a request is answered with a response of status "error",
\* that response, to the requesting connection, is the only frame written,
\* and users_db, online_users, groups, offline_messages, every current_user
\* and every task's position are as before the request.
C20_ErrorsChangeNothing ==
  \A c \in Conns : \A message \in AllRequests :
    pc[c] = "recv"
    => LET T == After(c, message)
       IN RefusedIn(T, c)
          => /\ Len(T.sent) = 1
             /\ T.sent[1].to = c
             /\ Untouched(T)

\* A join_group of a member has just been refused in a group of several
\* members.
C20_Witness ==
  \E c \in Conns : \E g \in DOMAIN groups :
    /\ Answered(c, ErrorResponse("join_group", MsgAlreadyMember))
    /\ current_user[c] \in groups[g]
    /\ Cardinality(groups[g]) >= 2
    /\ DictUsed(online_users) > 0


\* -------------------------------------------------------------------- C21
\* create_group and join_group requests with a group name.
NamedGroupRequests ==
  [type : {"create_group", "join_group"},
   data : [group_name : {GroupG, <<" ", "g">>}]]

\* Register requests for the three users.
NamedRegisterRequests ==
  [type : {"register"},
   data : [username : Users \cup {UserC}, password : {Password}]]

\* C21: in every reachable state (so in every interleaving), a create_group
\* for a name that is not a group creates it with the sender as its only
\* member and succeeds, and for a name that is a group gets the "already
\* exists" error and changes nothing; a join_group succeeds exactly when the
\* group exists and the sender is not a member, and adds the sender and
\* nobody else; a register for a name that is registered gets the "already
\* exists" error, and the register that stored the name ends with the
\* register success response.
C21_CheckThenMutate ==
  /\ \A c \in Conns : \A message \in NamedGroupRequests :
       (pc[c] = "recv" /\ current_user[c] # NoUser)
       => LET T == After(c, message)
              g == Strip(message.data.group_name)
              u == current_user[c]
          IN IF message.type = "create_group"
             THEN IF g \in DOMAIN groups
                  THEN /\ AnsweredIn(T, c, ErrorResponse("create_group",
                                                         MsgGroupExists))
                       /\ Untouched(T)
                  ELSE /\ AnsweredIn(T, c, SuccessResponse("create_group",
                                                           MsgGroupCreated))
                       /\ T.groups = MapPut(groups, g, {u})
             ELSE IF g \in DOMAIN groups /\ u \notin groups[g]
                  THEN /\ AnsweredIn(T, c, SuccessResponse("join_group",
                                                           MsgJoined))
                       /\ T.groups = [groups EXCEPT ![g] = @ \cup {u}]
                  ELSE /\ AnsweredIn(T, c,
                                     ErrorResponse("join_group",
                                                   IF g \in DOMAIN groups
                                                   THEN MsgAlreadyMember
                                                   ELSE MsgNoSuchGroup))
                       /\ Untouched(T)
  /\ \A c \in Conns : \A message \in NamedRegisterRequests :
       pc[c] = "recv"
       => LET T == After(c, message)
          IN IF message.data.username \in DOMAIN users_db
             THEN /\ AnsweredIn(T, c, ErrorResponse("register",
                                                    MsgUserExists))
                  /\ Untouched(T)
             ELSE /\ DOMAIN T.users_db
                       = DOMAIN users_db \cup {message.data.username}
                  /\ T.pc[c] = "recv"
                     => AnsweredIn(T, c, SuccessResponse("register",
                                                         MsgRegistered))
  /\ \A c \in Conns :
       (pc[c] = "broadcast" /\ loc[c].op = "register")
       => LET T == broadcast_next(State, c)
          IN T.pc[c] = "recv"
             => AnsweredIn(T, c, SuccessResponse("register", MsgRegistered))


\* -------------------------------------------------------------------- C22
\* The frame arrived whole.
Complete(frame) == frame.header /\ Len(frame.bytes) = frame.length

\* The payload of the frame is not a JSON text: it is not UTF-8, or it is
\* not a JSON value.
NotJson(frame) ==
  \/ ~decode(frame.bytes).ok
  \/ json_loads(decode(frame.bytes).text) = "error"

\* C22: a whole frame whose payload is not JSON, the payload of length 0
\* included, is answered with the parse error on its connection and nothing
\* else is sent or changed: the task is back in receive_message, bound as
\* before, with its writer open; and no whole frame makes the task leave
\* its loop for the finally clause.
C22_BadFrameKeepsConnection ==
  \A c \in Conns : \A frame \in Frames :
    (pc[c] = "recv" /\ Complete(frame))
    => LET T == handle_frame(State, c, frame)
       IN /\ NotJson(frame)
             => /\ AnsweredIn(T, c, ErrorResponse("parse", MsgParseError))
                /\ Untouched(T)
                /\ ~writer_closed[c]
          /\ T.pc[c] \notin Ended
          /\ T.loc[c].op # "close"


\* -------------------------------------------------------------------- C23
\* The last frame of the step is the login success response of task c.
LoginAnswered(c) ==
  /\ ResponseSent(c)
  /\ sent[Len(sent)].msg.type = "login_response"
  /\ sent[Len(sent)].msg.status = "success"

\* C23: a login that creates a session takes its two lists in the same
\* step, before the first frame of the backlog is written: online_list is
\* the keys of online_users with the new session, registered_list the keys
\* of users_db; no step of any task changes them while the login is under
\* way; and the login success response carries exactly them (so its
\* online_users has the logging-in username).
C23_LoginSnapshot ==
  /\ [](\A c \in Conns : \A message \in LoginRequests(RawNames) :
          (/\ pc[c] = "recv" /\ ValidCredentials(message)
           /\ ~DictHas(online_users, Strip(message.data.username)))
          => LET T == After(c, message)
             IN /\ T.pc[c] \in {"drain", "broadcast"}
                /\ T.loc[c].online_list
                     = DictKeys(online_users)
                       \cup {Strip(message.data.username)}
                /\ T.loc[c].registered_list = DOMAIN users_db)
  /\ [][\A c \in Conns :
          /\ (loc[c].op = "login" /\ loc'[c].op = "login")
             => /\ loc'[c].online_list = loc[c].online_list
                /\ loc'[c].registered_list = loc[c].registered_list
          /\ LoginAnswered(c)'
             => /\ loc[c].op = "login"
                /\ loc[c].username \in loc[c].online_list
                /\ sent'[Len(sent')].msg.data
                     = [online_users |-> loc[c].online_list,
                        registered_users |-> loc[c].registered_list]]_vars

\* A login success response has just been sent whose lists are no longer
\* the keys of the two registries: a user registered while the login was
\* suspended.
C23_Witness ==
  \E c \in Conns :
    /\ LoginAnswered(c)
    /\ sent[Len(sent)].msg.data.registered_users # DOMAIN users_db
    /\ current_user[c] \in sent[Len(sent)].msg.data.online_users


\* -------------------------------------------------------------------- C24
\* C24: a task that has entered its finally clause (its stream ended with a
\* user bound, and handle_logout is under way) reaches writer.close() in
\* the end, with its user out of online_users at that moment; and a task
\* whose stream has ended is never left by an exception.
C24_CleanupCompletes ==
  \A c \in Conns :
    (loc[c].op = "close") ~> (pc[c] = "closed" /\ writer_closed[c])


\* -------------------------------------------------------------------- C25
\* C25: a broadcast begun by a register or a login and suspended in a send
\* goes on, whatever the other tasks have done meanwhile: its next step
\* either writes its notification to the writer of a session that is
\* online, or ends the request with the success response of the register
\* or the login; it never ends with a server error.
C25_BroadcastCompletes ==
  \A c \in Conns :
    (pc[c] = "broadcast" /\ loc[c].op \in {"register", "login"})
    => LET T == broadcast_next(State, c)
       IN \/ /\ T.pc[c] = "broadcast"
             /\ Len(T.sent) = 1
             /\ T.sent[1].msg = loc[c].notification
             /\ T.sent[1].to \in DictValues(online_users)
          \/ /\ T.pc[c] = "recv"
             /\ Len(T.sent) = 1
             /\ T.sent[1].to = c
             /\ T.sent[1].msg.type = loc[c].op \o "_response"
             /\ T.sent[1].msg.status = "success"


\* -------------------------------------------------------------------- C26
\* C26: whenever a task waits in receive_message, its current_user is u if
\* and only if online_users maps u to the task's writer: a bound task holds
\* the session of its user, no other session, and an unbound task none.
C26_BindingMatchesRegistry ==
  \A c \in Conns :
    pc[c] = "recv"
    => \A u \in DOMAIN users_db :
         (current_user[c] = u)
         <=> (DictHas(online_users, u) /\ DictGet(online_users, u) = c)


\* -------------------------------------------------------------------- C27
\* C27: a group_chat suspended in a send of its loop goes on, whatever the
\* other tasks have done to the group meanwhile: its next step either
\* writes its notification to the writer of an online member other than
\* the sender and counts it, or ends the request with the success response
\* whose sent_to is the number of notifications written; it never ends with
\* a server error.
C27_FanOutCompletes ==
  \A c \in Conns :
    pc[c] = "group"
    => LET T == group_next(State, c)
       IN \/ /\ T.pc[c] = "group"
             /\ T.loc[c].sent_count = loc[c].sent_count + 1
             /\ \E u \in groups[loc[c].group] \ {loc[c].sender} :
                  /\ DictHas(online_users, u)
                  /\ T.sent = <<[by |-> c, to |-> DictGet(online_users, u),
                                 msg |-> loc[c].notification]>>
          \/ /\ T.pc[c] = "recv"
             /\ Len(T.sent) = 1
             /\ T.sent[1].to = c
             /\ T.sent[1].msg.type = "group_chat_response"
             /\ T.sent[1].msg.status = "success"
             /\ T.sent[1].msg.data.sent_to = loc[c].sent_count


\* -------------------------------------------------------------------- C28
\* A login is writing the backlog of user u.
Draining(u) == \E c \in Conns : pc[c] = "drain" /\ loc[c].username = u

\* C28: every user with a mailbox is registered; a user with a mailbox
\* that is not empty, and whose backlog no login is writing, has no entry in
\* online_users; and a valid private_chat to a user who has an entry in
\* online_users appends to no mailbox.
C28_MailboxOnlyOffline ==
  /\ DOMAIN offline_messages \subseteq DOMAIN users_db
  /\ \A u \in DOMAIN offline_messages :
       (offline_messages[u] # <<>> /\ ~Draining(u))
       => ~DictHas(online_users, u)
  /\ \A c \in Conns : \A message \in ChatRequests :
       (/\ pc[c] = "recv" /\ ValidChat(c, message)
        /\ DictHas(online_users, Strip(message.data.to)))
       => After(c, message).offline_messages = offline_messages

\* A login has written the backlog of its user and dropped the mailbox,
\* the user is online, and another user has messages waiting.
C28_Witness ==
  \E c \in Conns :
    /\ pc[c] = "broadcast"
    /\ loc[c].op = "login"
    /\ loc[c].backlog # <<>>
    /\ DictHas(online_users, loc[c].username)
    /\ loc[c].username \notin DOMAIN offline_messages
    /\ \E u \in DOMAIN offline_messages : offline_messages[u] # <<>>


\* -------------------------------------------------------------------- C29
\* The state after the next step of task c, which is suspended in a send.
Resumed(c) ==
  CASE pc[c] = "drain" -> login_drain_next(State, c)
    [] pc[c] = "broadcast" -> broadcast_next(State, c)
    [] pc[c] = "reply" -> respond(State, c, loc[c].response)
    [] pc[c] = "group" -> group_next(State, c)

\* The step that led to S either left the request of task c under way,
\* having written notifications only, or ended it with one response, written
\* to c's connection after the notifications of the step.
OneResponseIn(S, c) ==
  \/ /\ S.pc[c] \in Suspended
     /\ S.loc[c].op # "close"
     /\ \A i \in 1..Len(S.sent) : ~IsResponse(S.sent[i].msg)
  \/ /\ S.pc[c] = "recv"
     /\ S.sent # <<>>
     /\ S.sent[Len(S.sent)].by = c
     /\ S.sent[Len(S.sent)].to = c
     /\ \A i \in 1..Len(S.sent) : IsResponse(S.sent[i].msg) <=> i = Len(S.sent)

\* C29: every whole frame a task receives, be it a request, a JSON value
\* that is no request or no JSON at all, is answered with exactly one
\* response on its connection: each step of its handling writes
\* notifications only, until the step that writes the response as its last
\* frame and returns the task to receive_message.
C29_OneResponse ==
  \A c \in Conns :
    /\ pc[c] = "recv"
       => /\ \A frame \in Frames :
               Complete(frame) => OneResponseIn(handle_frame(State, c, frame), c)
          /\ \A message \in AllRequests : OneResponseIn(After(c, message), c)
    /\ (pc[c] \in Suspended /\ loc[c].op # "close")
       => OneResponseIn(Resumed(c), c)

=============================================================================
